---- MODULE Spec2Model ----
(***************************************************************************)
(* Model of nvim_devcontainer.py: the compose-service deriver (compose),   *)
(* the build invoker (build), the command dispatch of main, and the pure   *)
(* helpers deep_merge and normalize_env_vars.                              *)
(*                                                                         *)
(* Python values are tagged records [t |-> tag, v |-> payload]:            *)
(*   "none" None, "bool" booleans, "str" strings, "list" lists,            *)
(*   "dict" mappings (payload: a function from key names to values).       *)
(* A Python string is a sequence of atoms; the atoms ":" and "/" are the   *)
(* separator characters, every other atom is a run of characters that      *)
(* contains neither.  A mapping iterates its keys in the order of          *)
(* KeyOrder (the order in which the modelled documents list them).         *)
(***************************************************************************)
EXTENDS Integers, Sequences, FiniteSets, TLC

\* ------------------------------------------------------------------ values
NoneV == [t |-> "none", v |-> <<>>]
Absent == [t |-> "absent", v |-> <<>>]
B(b) == [t |-> "bool", v |-> b]
S(s) == [t |-> "str", v |-> s]
L(l) == [t |-> "list", v |-> l]
D(f) == [t |-> "dict", v |-> f]
EmptyDict == D(<<>>)

IsDict(x) == x.t = "dict"
IsNone(x) == x.t = "none"

\* Python truthiness of a value (used by `or`, `if x`, `:=`)
Truthy(x) ==
    CASE x.t = "none" -> FALSE
      [] x.t = "bool" -> x.v
      [] x.t = "str" -> x.v # <<>>
      [] x.t = "list" -> x.v # <<>>
      [] x.t = "dict" -> DOMAIN x.v # {}
      [] OTHER -> TRUE

\* dict.get(key) on a mapping value
Get(d, key) == IF key \in DOMAIN d.v THEN d.v[key] ELSE NoneV
\* dict.get(key, default)
GetOr(d, key, default) == IF key \in DOMAIN d.v THEN d.v[key] ELSE default
Has(d, key) == key \in DOMAIN d.v
\* d[key] = value
Put(d, key, value) == D((key :> value) @@ d.v)
\* del d[key]
Del(d, key) == D([k \in DOMAIN d.v \ {key} |-> d.v[k]])

\* ----------------------------------------------------------- deep_merge
\* Shallow update: nested mappings of dict1 are replaced, not merged.
deep_merge_shallow(dict1, dict2) ==
    [key \in DOMAIN dict1 \cup DOMAIN dict2 |->
        IF key \in DOMAIN dict2 THEN dict2[key] ELSE dict1[key]]

RECURSIVE deep_merge(_, _)
RECURSIVE deep_merge_loop(_, _, _)
\* for key, value in dict2.items(): ...   (keys: the keys still to visit)
deep_merge_loop(result, dict2, keys) ==
    IF keys = {} THEN result
    ELSE LET key == CHOOSE k \in keys : TRUE
             value == dict2[key]
             result2 ==
                 IF key \in DOMAIN result /\ IsDict(result[key]) /\ IsDict(value)
                 THEN (key :> D(deep_merge(result[key].v, value.v))) @@ result
                 ELSE (key :> value) @@ result
         IN deep_merge_loop(result2, dict2, keys \ {key})

\* dict1, dict2: functions from key names to values; result = dict1.copy()
deep_merge(dict1, dict2) == deep_merge_loop(dict1, dict2, DOMAIN dict2)

\* normalize_env_vars: a mapping becomes the list of "k=v" strings, in the
\* mapping's iteration order; anything else is returned as it is.
KeyOrder == <<"A", "B">>
RECURSIVE ItemsInOrder(_, _)
ItemsInOrder(d, i) ==
    IF i > Len(KeyOrder) THEN <<>>
    ELSE (IF KeyOrder[i] \in DOMAIN d
          THEN <<S(<<KeyOrder[i], "=">> \o d[KeyOrder[i]].v)>>
          ELSE <<>>) \o ItemsInOrder(d, i + 1)
normalize_env_vars(env_vars) ==
    IF IsDict(env_vars) THEN L(ItemsInOrder(env_vars.v, 1)) ELSE env_vars

\* ---------------------------------------------------------------- strings
\* s.split(sep)[0]: the part of s before the first occurrence of sep
RECURSIVE SplitFirst(_, _)
SplitFirst(s, sep) ==
    IF s = <<>> \/ Head(s) = sep THEN <<>>
    ELSE <<Head(s)>> \o SplitFirst(Tail(s), sep)

\* os.path.basename: the part after the last "/"
RECURSIVE Basename(_)
Basename(path) ==
    IF \E i \in 1..Len(path) : path[i] = "/"
    THEN Basename(Tail(path))
    ELSE path

\* os.path.abspath of a path relative to the working directory
Cwd == <<"/", "home", "/", "myproj">>
AbsPath(path) ==
    IF path # <<>> /\ Head(path) = "/" THEN path
    ELSE IF path = <<".">> THEN Cwd
    ELSE Cwd \o <<"/">> \o path

\* ------------------------------------------------- steps of compose()
\* lines 176-180: the override document, or the document "services:"
\* Always starting from an empty services mapping, whatever is on disk.
LoadOverrideEmpty(file) == D("services" :> EmptyDict)
LoadOverrideConfig(file) ==
    IF file # Absent
    THEN (IF Truthy(file) THEN file ELSE EmptyDict)
    ELSE D("services" :> NoneV)

\* lines 194-196: merge the existing service of that name unless replacing
\* The flag read the wrong way round: merged only when replacing is asked for.
MergeExistingFlagInverted(existing_service, new_service, replace_existing) ==
    IF Truthy(existing_service) /\ replace_existing
    THEN D(deep_merge(existing_service.v, new_service.v))
    ELSE new_service
MergeExisting(existing_service, new_service, replace_existing) ==
    IF Truthy(existing_service) /\ ~replace_existing
    THEN D(deep_merge(existing_service.v, new_service.v))
    ELSE new_service

\* lines 209-224: the passthrough variable names are appended
PassthroughEnv ==
    << S(<<"COLORTERM">>), S(<<"ITERM_PROFILE">>), S(<<"ITERM_SESSION_ID">>),
       S(<<"LC_TERMINAL">>), S(<<"LC_TERMINAL_VERSION">>), S(<<"TERM">>),
       S(<<"TERM_PROGRAM">>), S(<<"TERM_PROGRAM_VERSION">>),
       S(<<"TERM_SESSION_ID">>) >>
UpdateEnv(new_service) ==
    LET env_list == normalize_env_vars(GetOr(new_service, "environment", L(<<>>)))
    IN Put(new_service, "environment", L(env_list.v \o PassthroughEnv))

\* lines 226-229: the explicit image, or <project>-<service>
SourceImage(source_service, context_dir, service_name) ==
    IF IsNone(Get(source_service, "image"))
    THEN Basename(AbsPath(context_dir)) \o <<"-", service_name>>
    ELSE Get(source_service, "image").v

\* lines 231-232
NewImage(source_image) ==
    SplitFirst(source_image, ":") \o <<":", "nvim-devcontainer">>

\* The removal loop left out: the service keeps command, build, depends_on.
KeepIgnoredKeys(new_service) == new_service

\* lines 238-241
RECURSIVE DelAll(_, _)
DelAll(d, keys) ==
    IF keys = <<>> THEN d
    ELSE DelAll(IF Has(d, Head(keys)) THEN Del(d, Head(keys)) ELSE d, Tail(keys))
ignore_keys == <<"command", "build", "depends_on">>
RemoveIgnoredKeys(new_service) == DelAll(new_service, ignore_keys)

\* lines 243-254
FixedMounts ==
    << S(<<"/", "home", "/", "u", "/", ".config", "/", "nvim", ":",
           "/", "nvim-devcontainer", "/", "config", "/", "nvim", ":", "ro">>),
       S(<<"/", "home", "/", "u", "/", ".config", "/", "git", ":",
           "/", "nvim-devcontainer", "/", "config", "/", "git", ":", "ro">>),
       S(<<"/", "home", "/", "u", "/", ".config", "/", "github-copilot", ":",
           "/", "nvim-devcontainer", "/", "config", "/", "github-copilot">>),
       S(<<"nvim-data", ":", "/", "nvim-devcontainer", "/", "data", "/", "nvim">>),
       S(<<"/", "tmp", "/", ".X11-unix", ":", "/", "tmp", "/", ".X11-unix", ":", "ro">>) >>
AddMounts(new_service) ==
    Put(new_service, "volumes",
        L(GetOr(new_service, "volumes", L(<<>>)).v \o FixedMounts))

\* lines 209-254 in order
UpdateService(new_service, source_image) ==
    LET s1 == UpdateEnv(new_service)
        s2 == Put(s1, "image", S(NewImage(source_image)))
        s3 == Put(s2, "stdin_open", B(TRUE))
        s4 == Put(s3, "tty", B(TRUE))
        s5 == Put(s4, "entrypoint", S(<<"nvim">>))
        s6 == RemoveIgnoredKeys(s5)
    IN AddMounts(s6)

\* lines 256-262: volumes reset, the new service stored under its name
AddService(config, name, new_service) ==
    LET c1 == Put(config, "volumes", D("nvim-data" :> EmptyDict))
        services == IF Truthy(GetOr(c1, "services", NoneV))
                    THEN Get(c1, "services") ELSE EmptyDict
    IN Put(c1, "services", Put(services, name, new_service))

\* lines 266-270: the build block of the --no-build branch
NoBuildBlock(source_service, context_dir, dockerfile) ==
    LET b0 == GetOr(source_service, "build", EmptyDict)
        b1 == Put(b0, "context", S(context_dir))
        b2 == Put(b1, "dockerfile", dockerfile)
    IN Put(b2, "target", S(<<"nvim-devcontainer">>))

\* Dockerfile._write_dockerfile, lines 122-135: the name of the returned handle
TempName == <<"/", "tmp", "/", "tmpfile">>
DockerfileName(out_path) ==
    IF out_path = S(<<"-">>) THEN <<"<stdout>">>
    ELSE IF Truthy(out_path) THEN out_path.v
    ELSE TempName

\* ------------------------------------------------------------- the state
MaxRuns == 2

Procs == {"p1", "p2"}

VARIABLES
    compose_file,             \* the source compose file: Absent or its document
    override_file,            \* the override file: Absent or its document
    pc,                       \* per process: position in main/compose/build
    args,                     \* per process: the parsed argparse.Namespace
    exc,                      \* per process: the exception being raised
    exit_code,                \* per process: exit status (-1 while running)
    stderr,                   \* per process: what was written to the error stream
    compose_override_config,  \* per process: local of compose()
    source_service,           \* per process: local of compose()
    new_service,              \* per process: local of compose()
    context_dir,              \* per process: local of compose()
    source_image,             \* per process: local of compose()
    build_call,               \* per process: the arguments of the running build()
    docker_cmd,               \* per process: the command given to subprocess.run
    dockerfile_written,       \* per process: the Dockerfile handle last written
    runs,                     \* number of invocations started so far
    override_before,          \* per process: the override file when the run started
    prev_run,                 \* the last successful compose run before the current one
    seen,                     \* per process: who had written the override when it was read
    d1, d2,                   \* the arguments of a deep_merge call taken on its own
    merged,                   \* its result
    mpc                       \* "off", "call" or "returned"

mvars == <<d1, d2, merged, mpc>>

cvars == <<compose_file, override_file, pc, args, exc, exit_code, stderr,
          compose_override_config, source_service, new_service, context_dir,
          source_image, build_call, docker_cmd, dockerfile_written, runs,
          override_before, prev_run, seen>>

vars == <<cvars, mvars>>

files == <<compose_file, override_file>>
locals == <<compose_override_config, source_service, new_service, context_dir,
            source_image>>
history == <<runs, override_before, prev_run, seen>>
outcome == <<exc, exit_code, stderr>>

NoExc == [type |-> "none", message |-> ""]

\* ------------------------------------------------------------- the inputs
SourceImages ==
    {NoneV, S(<<"repo", ":", "1.0">>),
     S(<<"host", ":", "5000", "/", "repo", ":", "1.0">>)}
SourceBuilds == {NoneV, D("context" :> S(<<".">>))}
SourceExtras ==
    { <<>>,
      ("environment" :> D(("A" :> S(<<"1">>)) @@ ("B" :> S(<<"2">>))))
        @@ ("volumes" :> L(<<S(<<".", "/", "src", ":", "/", "src">>)>>))
        @@ ("command" :> S(<<"run">>))
        @@ ("depends_on" :> L(<<S(<<"db">>)>>))
        @@ ("working_dir" :> S(<<"/", "b">>))
        @@ ("labels" :> D("y" :> S(<<"2">>))),
      ("environment" :> L(<<S(<<"A", "=", "1">>)>>))
        @@ ("working_dir" :> S(<<"/", "b">>)) }
WithKey(f, key, value) == IF IsNone(value) THEN f ELSE (key :> value) @@ f
SourceServices ==
    {D(WithKey(WithKey(e, "image", i), "build", b)) :
        e \in SourceExtras, i \in SourceImages, b \in SourceBuilds}
ComposeFiles ==
    {Absent} \cup {D("services" :> D("app" :> svc)) : svc \in SourceServices}

CustomService ==
    D(("working_dir" :> S(<<"/", "a">>))
        @@ ("labels" :> D("x" :> S(<<"1">>)))
        @@ ("command" :> S(<<"sh">>))
        @@ ("ports" :> L(<<S(<<"8080">>)>>)))
OverrideFiles ==
    {Absent, NoneV,
     D(("version" :> S(<<"3">>)) @@ ("services" :> EmptyDict)),
     D("services" :> D("vim" :> CustomService))}

ComposeArgs ==
    [command : {"compose"}, source_service : {"app", "missing"},
     name : {"vim"},
     dockerfile : {NoneV, S(<<"-">>), S(<<"Dockerfile.nvim">>)},
     no_build : BOOLEAN, replace_existing : BOOLEAN,
     build_args : {<<>>}]
BuildArgs ==
    [command : {"build"},
     base_image : {<<"repo", ":", "1.0">>,
                   <<"host", ":", "5000", "/", "repo", ":", "1.0">>},
     directory : {NoneV, S(<<"ctx">>)},
     build_args : {<<>>, << <<"--no-cache">>, <<"--pull">> >>,
                   << <<"--">>, <<"--no-cache">>, <<"--pull">> >>}]

Init ==
    /\ compose_file \in ComposeFiles
    /\ override_file \in OverrideFiles
    /\ pc = [p \in Procs |-> "idle"]
    /\ args = [p \in Procs |-> [command |-> "none"]]
    /\ exc = [p \in Procs |-> NoExc]
    /\ exit_code = [p \in Procs |-> -1]
    /\ stderr = [p \in Procs |-> <<>>]
    /\ compose_override_config = [p \in Procs |-> NoneV]
    /\ source_service = [p \in Procs |-> NoneV]
    /\ new_service = [p \in Procs |-> NoneV]
    /\ context_dir = [p \in Procs |-> NoneV]
    /\ source_image = [p \in Procs |-> NoneV]
    /\ build_call = [p \in Procs |-> NoneV]
    /\ docker_cmd = [p \in Procs |-> <<>>]
    /\ dockerfile_written = [p \in Procs |-> NoneV]
    /\ runs = 0
    /\ override_before = [p \in Procs |-> Absent]
    /\ prev_run = NoneV
    /\ seen = [p \in Procs |-> {}]
    /\ d1 = <<>>
    /\ d2 = <<>>
    /\ merged = NoneV
    /\ mpc = "off"

\* ------------------------------------------------------------ the actions
Continue(p, label) ==
    /\ pc' = [pc EXCEPT ![p] = label]
    /\ UNCHANGED outcome

\* raise <type>(<message>): control leaves compose()/build() for main
Raise(p, type, message) ==
    /\ pc' = [pc EXCEPT ![p] = "raised"]
    /\ exc' = [exc EXCEPT ![p] = [type |-> type, message |-> message]]
    /\ UNCHANGED <<exit_code, stderr>>

\* A process is started with the parsed arguments a (lines 379-382, 393)
Main(p, a) ==
    /\ pc[p] \in {"idle", "exited"}
    /\ args' = [args EXCEPT ![p] = a]
    /\ pc' = [pc EXCEPT ![p] =
                IF a.command = "build" THEN "main_build" ELSE "main_compose"]
    /\ exc' = [exc EXCEPT ![p] = NoExc]
    /\ exit_code' = [exit_code EXCEPT ![p] = -1]
    /\ stderr' = [stderr EXCEPT ![p] = <<>>]
    /\ compose_override_config' = [compose_override_config EXCEPT ![p] = NoneV]
    /\ source_service' = [source_service EXCEPT ![p] = NoneV]
    /\ new_service' = [new_service EXCEPT ![p] = NoneV]
    /\ context_dir' = [context_dir EXCEPT ![p] = NoneV]
    /\ source_image' = [source_image EXCEPT ![p] = NoneV]
    /\ build_call' = [build_call EXCEPT ![p] = NoneV]
    /\ docker_cmd' = [docker_cmd EXCEPT ![p] = <<>>]
    /\ dockerfile_written' = [dockerfile_written EXCEPT ![p] = NoneV]
    /\ runs' = runs + 1
    /\ override_before' = [override_before EXCEPT ![p] = override_file]
    /\ prev_run' =
         IF pc[p] = "exited" /\ exit_code[p] = 0 /\ args[p].command = "compose"
         THEN [t |-> "run",
               v |-> [name |-> args[p].name,
                      source_service |-> args[p].source_service,
                      doc |-> override_file]]
         ELSE prev_run
    /\ UNCHANGED <<mvars, files, seen>>

\* lines 383-391: the build() call of the build command
TmpDir == <<"/", "tmp", "/", "tmpdir">>
MainBuildCall(a) ==
    LET tag_base == SplitFirst(a.base_image, ":")
        tag == tag_base \o <<":", "nvim-devcontainer">>
        build_args == IF a.build_args # <<>> THEN Tail(a.build_args) ELSE <<>>
    IN IF IsNone(a.directory)
       THEN [base_image_name |-> a.base_image, tag |-> tag,
             context_dir |-> TmpDir, args |-> build_args,
             dockerfile |-> NoneV, ret |-> "main_return"]
       ELSE [base_image_name |-> a.base_image, tag |-> tag,
             context_dir |-> a.directory.v, args |-> <<>>,
             dockerfile |-> NoneV, ret |-> "main_return"]

MainBuild(p) ==
    /\ pc[p] = "main_build"
    /\ build_call' = [build_call EXCEPT ![p] = MainBuildCall(args[p])]
    /\ Continue(p, "build_enter")
    /\ UNCHANGED <<mvars, files, args, locals, docker_cmd, dockerfile_written, history>>

\* build(), lines 150-156: entering the Dockerfile context writes the file
BuildEnter(p) ==
    /\ pc[p] = "build_enter"
    /\ dockerfile_written' = [dockerfile_written EXCEPT ![p] =
          [name |-> DockerfileName(build_call[p].dockerfile),
           base_image_name |-> build_call[p].base_image_name]]
    /\ Continue(p, "build_run")
    /\ UNCHANGED <<mvars, files, args, locals, build_call, docker_cmd, history>>

\* build(), lines 157-160: the command line
BuildCmd(call, dockerfile_name) ==
    LET tag == IF call.tag # <<>> THEN call.tag
               ELSE call.base_image_name \o <<":", "nvim-devcontainer">>
    IN << <<"docker">>, <<"build">>, <<"-t">>, tag, <<"-f">>, dockerfile_name,
          call.context_dir >> \o call.args

\* build(), lines 162-164: the build engine exits with status 0
BuildRunOk(p) ==
    /\ pc[p] = "build_run"
    /\ docker_cmd' = [docker_cmd EXCEPT ![p] =
                        BuildCmd(build_call[p], dockerfile_written[p].name)]
    /\ Continue(p, build_call[p].ret)
    /\ UNCHANGED <<mvars, files, args, locals, build_call, dockerfile_written, history>>

\* As BuildRunFails, had the override been dumped before the build is run.
BuildRunFailsAfterDump(p) ==
    /\ pc[p] = "build_run"
    /\ docker_cmd' = [docker_cmd EXCEPT ![p] =
                        BuildCmd(build_call[p], dockerfile_written[p].name)]
    /\ Raise(p, "CalledProcessError", "docker build")
    /\ override_file' = IF args[p].command = "compose"
                        THEN compose_override_config[p] ELSE override_file
    /\ UNCHANGED <<mvars, compose_file, args, locals, build_call,
                   dockerfile_written, history>>

\* build(), line 162: the build engine exits non-zero, check=True raises
BuildRunFails(p) ==
    /\ pc[p] = "build_run"
    /\ docker_cmd' = [docker_cmd EXCEPT ![p] =
                        BuildCmd(build_call[p], dockerfile_written[p].name)]
    /\ Raise(p, "CalledProcessError", "docker build")
    /\ UNCHANGED <<mvars, files, args, locals, build_call, dockerfile_written, history>>

\* lines 389-391 return, main ends: exit status 0
MainReturn(p) ==
    /\ pc[p] = "main_return"
    /\ pc' = [pc EXCEPT ![p] = "exited"]
    /\ exit_code' = [exit_code EXCEPT ![p] = 0]
    /\ UNCHANGED <<mvars, files, args, exc, stderr, locals, build_call, docker_cmd,
                   dockerfile_written, history>>

\* lines 398-400: main catches CommandError
ExceptCommandError(p) ==
    /\ pc[p] = "raised"
    /\ exc[p].type = "CommandError"
    /\ stderr' = [stderr EXCEPT ![p] = <<exc[p].message>>]
    /\ exit_code' = [exit_code EXCEPT ![p] = 1]
    /\ pc' = [pc EXCEPT ![p] = "exited"]
    /\ UNCHANGED <<mvars, files, args, exc, locals, build_call, docker_cmd,
                   dockerfile_written, history>>

\* any other exception leaves main: the interpreter prints a traceback
Unhandled(p) ==
    /\ pc[p] = "raised"
    /\ exc[p].type # "CommandError"
    /\ stderr' = [stderr EXCEPT ![p] =
                    <<"Traceback (most recent call last):", exc[p].type>>]
    /\ exit_code' = [exit_code EXCEPT ![p] = 1]
    /\ pc' = [pc EXCEPT ![p] = "exited"]
    /\ UNCHANGED <<mvars, files, args, exc, locals, build_call, docker_cmd,
                   dockerfile_written, history>>

\* compose(), lines 168-173: the source compose file must exist
ComposeStart(p) ==
    /\ pc[p] = "main_compose"
    /\ IF compose_file = Absent
       THEN Raise(p, "CommandError", "File not found")
       ELSE Continue(p, "load_override")
    /\ UNCHANGED <<mvars, files, args, locals, build_call, docker_cmd,
                   dockerfile_written, history>>

\* compose(), lines 175-180: the override file is read
LoadOverride(p) ==
    /\ pc[p] = "load_override"
    /\ compose_override_config' =
         [compose_override_config EXCEPT ![p] = LoadOverrideConfig(override_file)]
    /\ seen' = [seen EXCEPT ![p] =
                  {q \in Procs \ {p} : pc[q] = "exited" /\ exit_code[q] = 0}]
    /\ Continue(p, "load_source")
    /\ UNCHANGED <<mvars, files, args, source_service, new_service, context_dir,
                   source_image, build_call, docker_cmd, dockerfile_written,
                   runs, override_before, prev_run>>

\* compose(), lines 182-190: the source service is looked up and cloned
LoadSource(p) ==
    /\ pc[p] = "load_source"
    /\ LET compose_config ==
               IF compose_file # Absent /\ Truthy(compose_file)
               THEN compose_file ELSE EmptyDict
           name == args[p].source_service
       IN IF ~Has(compose_config, "services")
             \/ ~Has(Get(compose_config, "services"), name)
          THEN /\ Raise(p, "KeyError", name)
               /\ UNCHANGED <<mvars, source_service, new_service>>
          ELSE LET src == Get(compose_config, "services").v[name]
               IN /\ source_service' = [source_service EXCEPT ![p] = src]
                  /\ new_service' = [new_service EXCEPT ![p] =
                        Put(src, "environment",
                            normalize_env_vars(GetOr(src, "environment", L(<<>>))))]
                  /\ Continue(p, "merge_existing")
    /\ UNCHANGED <<mvars, files, args, compose_override_config, context_dir,
                   source_image, build_call, docker_cmd, dockerfile_written,
                   history>>

\* compose(), lines 192-196
MergeStep(p) ==
    /\ pc[p] = "merge_existing"
    /\ LET config == compose_override_config[p]
       IN IF ~Has(config, "services")
          THEN /\ Raise(p, "KeyError", "services")
               /\ UNCHANGED new_service
          ELSE IF ~IsDict(Get(config, "services"))
          THEN /\ Raise(p, "AttributeError", "get")
               /\ UNCHANGED new_service
          ELSE /\ new_service' = [new_service EXCEPT ![p] =
                     MergeExisting(Get(Get(config, "services"), args[p].name),
                                   new_service[p], args[p].replace_existing)]
               /\ Continue(p, "get_context_dir")
    /\ UNCHANGED <<mvars, files, args, compose_override_config, source_service,
                   context_dir, source_image, build_call, docker_cmd,
                   dockerfile_written, history>>

\* compose(), lines 198-206
GetContextDir(p) ==
    /\ pc[p] = "get_context_dir"
    /\ LET build_config == GetOr(source_service[p], "build", EmptyDict)
           dir == Get(build_config, "context")
       IN IF ~Truthy(dir)
          THEN /\ Raise(p, "CommandError", "Could not determine context dir")
               /\ UNCHANGED context_dir
          ELSE /\ context_dir' = [context_dir EXCEPT ![p] = dir]
               /\ Continue(p, "breakpoint")
    /\ UNCHANGED <<mvars, files, args, compose_override_config, source_service,
                   new_service, source_image, build_call, docker_cmd,
                   dockerfile_written, history>>

\* compose(), line 208: the debugger is entered and the user continues
BreakpointContinue(p) ==
    /\ pc[p] = "breakpoint"
    /\ Continue(p, "update_service")
    /\ UNCHANGED <<mvars, files, args, locals, build_call, docker_cmd,
                   dockerfile_written, history>>

\* compose(), line 208: the debugger is entered and quit (or stdin is closed)
BreakpointQuit(p) ==
    /\ pc[p] = "breakpoint"
    /\ Raise(p, "BdbQuit", "")
    /\ UNCHANGED <<mvars, files, args, locals, build_call, docker_cmd,
                   dockerfile_written, history>>

\* compose(), lines 209-262: the service is rewritten and stored in the
\* in-memory override document
UpdateStep(p) ==
    /\ pc[p] = "update_service"
    /\ LET img == SourceImage(source_service[p], context_dir[p].v,
                              args[p].source_service)
           svc == UpdateService(new_service[p], img)
       IN /\ source_image' = [source_image EXCEPT ![p] = S(img)]
          /\ new_service' = [new_service EXCEPT ![p] = svc]
          /\ compose_override_config' = [compose_override_config EXCEPT ![p] =
                AddService(compose_override_config[p], args[p].name, svc)]
    /\ Continue(p, "build_or_not")
    /\ UNCHANGED <<mvars, files, args, source_service, context_dir, build_call,
                   docker_cmd, dockerfile_written, history>>

\* compose(), lines 264-270: --no-build with --dockerfile.  new_service is
\* the object stored in the override document at line 262, so the document
\* sees the build block too.
SetBuildBlock(p) ==
    /\ pc[p] = "build_or_not"
    /\ args[p].no_build /\ Truthy(args[p].dockerfile)
    /\ LET svc == Put(new_service[p], "build",
                      NoBuildBlock(source_service[p], context_dir[p].v,
                                   args[p].dockerfile))
       IN /\ new_service' = [new_service EXCEPT ![p] = svc]
          /\ compose_override_config' = [compose_override_config EXCEPT ![p] =
                Put(compose_override_config[p], "services",
                    Put(Get(compose_override_config[p], "services"),
                        args[p].name, svc))]
    /\ Continue(p, "write_dockerfile")
    /\ UNCHANGED <<mvars, files, args, source_service, context_dir, source_image,
                   build_call, docker_cmd, dockerfile_written, history>>

\* compose(), lines 273-281: the build() call of the compose command
ComposeBuildCall(a, src_image, svc, dir) ==
    [base_image_name |-> src_image.v, tag |-> Get(svc, "image").v,
     context_dir |-> dir.v,
     args |-> IF a.build_args # <<>> THEN Tail(a.build_args) ELSE <<>>,
     dockerfile |-> a.dockerfile, ret |-> "write_dockerfile"]

ComposeBuild(p) ==
    /\ pc[p] = "build_or_not"
    /\ ~(args[p].no_build /\ Truthy(args[p].dockerfile))
    /\ build_call' = [build_call EXCEPT ![p] =
          ComposeBuildCall(args[p], source_image[p], new_service[p],
                           context_dir[p])]
    /\ Continue(p, "build_enter")
    /\ UNCHANGED <<mvars, files, args, locals, docker_cmd, dockerfile_written, history>>

\* compose(), lines 284-290: the Dockerfile is (re)generated
WriteDockerfile(p) ==
    /\ pc[p] = "write_dockerfile"
    /\ dockerfile_written' = [dockerfile_written EXCEPT ![p] =
          [name |-> DockerfileName(args[p].dockerfile),
           base_image_name |-> source_image[p].v]]
    /\ Continue(p, "write_override")
    /\ UNCHANGED <<mvars, files, args, locals, build_call, docker_cmd, history>>

\* compose(), lines 292-299, and the return through main: exit status 0
WriteOverride(p) ==
    /\ pc[p] = "write_override"
    /\ override_file' = compose_override_config[p]
    /\ pc' = [pc EXCEPT ![p] = "exited"]
    /\ exit_code' = [exit_code EXCEPT ![p] = 0]
    /\ UNCHANGED <<mvars, compose_file, args, exc, stderr, locals, build_call,
                   docker_cmd, dockerfile_written, history>>

\* one step of a process running the compose command
ComposeStep(p) ==
    \/ BuildEnter(p)
    \/ BuildRunOk(p)
    \/ BuildRunFails(p)
    \/ ComposeStart(p)
    \/ LoadOverride(p)
    \/ LoadSource(p)
    \/ MergeStep(p)
    \/ GetContextDir(p)
    \/ BreakpointContinue(p)
    \/ BreakpointQuit(p)
    \/ UpdateStep(p)
    \/ SetBuildBlock(p)
    \/ ComposeBuild(p)
    \/ WriteDockerfile(p)
    \/ WriteOverride(p)
    \/ ExceptCommandError(p)
    \/ Unhandled(p)

\* one step of a running process
Step(p) == MainBuild(p) \/ MainReturn(p) \/ ComposeStep(p)

\* invocations one after the other, by one process
Invoke ==
    /\ runs < MaxRuns
    /\ \E a \in ComposeArgs \cup BuildArgs : Main("p1", a)

Next == Invoke \/ Step("p1")

Spec == Init /\ [][Next]_vars

\* ------------------------------------- two invocations at the same time
\* Two compose invocations with different target names run as two operating
\* system processes against the same two files; each runs once.
TargetName(p) == IF p = "p1" THEN "vim" ELSE "vim2"
RaceArgs(p) ==
    [command : {"compose"}, source_service : {"app"},
     name : {TargetName(p)}, dockerfile : {NoneV, S(<<"Dockerfile.nvim">>)},
     no_build : BOOLEAN, replace_existing : {FALSE},
     build_args : {<<>>}]
RaceComposeFiles ==
    {D("services" :> D("app" :> svc)) :
        svc \in {s \in SourceServices : ~Has(s, "image")}}
RaceOverrideFiles ==
    {Absent, D(("version" :> S(<<"3">>)) @@ ("services" :> EmptyDict))}

InitRace ==
    /\ compose_file \in RaceComposeFiles
    /\ override_file \in RaceOverrideFiles
    /\ pc = [p \in Procs |-> "idle"]
    /\ args = [p \in Procs |-> [command |-> "none"]]
    /\ exc = [p \in Procs |-> NoExc]
    /\ exit_code = [p \in Procs |-> -1]
    /\ stderr = [p \in Procs |-> <<>>]
    /\ compose_override_config = [p \in Procs |-> NoneV]
    /\ source_service = [p \in Procs |-> NoneV]
    /\ new_service = [p \in Procs |-> NoneV]
    /\ context_dir = [p \in Procs |-> NoneV]
    /\ source_image = [p \in Procs |-> NoneV]
    /\ build_call = [p \in Procs |-> NoneV]
    /\ docker_cmd = [p \in Procs |-> <<>>]
    /\ dockerfile_written = [p \in Procs |-> NoneV]
    /\ runs = 0
    /\ override_before = [p \in Procs |-> Absent]
    /\ prev_run = NoneV
    /\ seen = [p \in Procs |-> {}]
    /\ d1 = <<>>
    /\ d2 = <<>>
    /\ merged = NoneV
    /\ mpc = "off"

InvokeRace ==
    \E p \in Procs :
        /\ pc[p] = "idle"
        /\ \E a \in RaceArgs(p) : Main(p, a)

RunRace == \E p \in Procs : ComposeStep(p)

NextRace == InvokeRace \/ RunRace

SpecRace == InitRace /\ [][NextRace]_vars

\* ------------------------------------------------ deep_merge in isolation
MaxDepth == 2

\* All mappings over subsets of `keys` nested at most `depth` deep whose
\* leaves are drawn from `leaves`.
RECURSIVE DictsUpTo(_, _, _)
DictsUpTo(depth, keys, leaves) ==
    IF depth = 0 THEN {}
    ELSE LET vals == leaves \cup {D(f) : f \in DictsUpTo(depth - 1, keys, leaves)}
         IN UNION {[K -> vals] : K \in SUBSET keys}

\* Leaves of the first argument are all "1", of the second all "2", so the
\* origin of every leaf of the result is visible.
Leaf1 == S(<<"1">>)
Leaf2 == S(<<"2">>)
Dicts1 == DictsUpTo(MaxDepth, {"a", "x"}, {Leaf1})
Dicts2 == DictsUpTo(MaxDepth, {"a", "y"}, {Leaf2})

InitMerge ==
    /\ compose_file = Absent
    /\ override_file = Absent
    /\ pc = [p \in Procs |-> "idle"]
    /\ args = [p \in Procs |-> [command |-> "none"]]
    /\ exc = [p \in Procs |-> NoExc]
    /\ exit_code = [p \in Procs |-> -1]
    /\ stderr = [p \in Procs |-> <<>>]
    /\ compose_override_config = [p \in Procs |-> NoneV]
    /\ source_service = [p \in Procs |-> NoneV]
    /\ new_service = [p \in Procs |-> NoneV]
    /\ context_dir = [p \in Procs |-> NoneV]
    /\ source_image = [p \in Procs |-> NoneV]
    /\ build_call = [p \in Procs |-> NoneV]
    /\ docker_cmd = [p \in Procs |-> <<>>]
    /\ dockerfile_written = [p \in Procs |-> NoneV]
    /\ runs = 0
    /\ override_before = [p \in Procs |-> Absent]
    /\ prev_run = NoneV
    /\ seen = [p \in Procs |-> {}]
    /\ d1 \in Dicts1
    /\ d2 \in Dicts2
    /\ merged = NoneV
    /\ mpc = "call"

CallDeepMerge ==
    /\ mpc = "call"
    /\ merged' = D(deep_merge(d1, d2))
    /\ mpc' = "returned"
    /\ UNCHANGED <<cvars, d1, d2>>

NextMerge == CallDeepMerge
SpecMerge == InitMerge /\ [][NextMerge]_vars

\* the merge as the specification words it, key by key
RECURSIVE ExpectedMerge(_, _)
ExpectedMerge(a, b) ==
    [k \in DOMAIN a \cup DOMAIN b |->
        IF k \notin DOMAIN b THEN a[k]
        ELSE IF k \notin DOMAIN a THEN b[k]
        ELSE IF IsDict(a[k]) /\ IsDict(b[k])
             THEN D(ExpectedMerge(a[k].v, b[k].v))
        ELSE b[k]]

\* C4: deep_merge(d1, d2) has the union of both key sets; a key of only one
\* argument keeps that argument's value, a key that is a mapping in both maps
\* to the recursive merge, any other key of both takes the second
\* argument's value; {a:{x:1}} with {a:{y:2}} gives {a:{x:1,y:2}} and
\* {a:1} with {a:2} gives {a:2}.
C4_DeepMerge ==
    mpc = "returned" =>
        /\ DOMAIN merged.v = DOMAIN d1 \cup DOMAIN d2
        /\ merged.v = ExpectedMerge(d1, d2)
        /\ (d1 = ("a" :> D("x" :> Leaf1)) /\ d2 = ("a" :> D("y" :> Leaf2)))
             => merged.v = ("a" :> D(("x" :> Leaf1) @@ ("y" :> Leaf2)))
        /\ (d1 = ("a" :> Leaf1) /\ d2 = ("a" :> Leaf2))
             => merged.v = ("a" :> Leaf2)

\* the nested example of the specification, merged
C4_Witness ==
    /\ mpc = "returned"
    /\ d1 = ("a" :> D("x" :> Leaf1))
    /\ d2 = ("a" :> D("y" :> Leaf2))
    /\ merged = D("a" :> D(("x" :> Leaf1) @@ ("y" :> Leaf2)))

\* =============================================================== claims
\* the persisted service of process p's target name
Persisted(p) == Get(Get(override_file, "services"), args[p].name)
ComposeOk(p) ==
    /\ args[p].command = "compose"
    /\ pc[p] = "exited"
    /\ exit_code[p] = 0
ComposeFailed(p) ==
    /\ args[p].command = "compose"
    /\ pc[p] \in {"raised", "exited"}
    /\ exit_code[p] # 0

\* C1: a run of the deriver that fails (source file missing, source service
\* absent, no build.context, build engine exiting non-zero, or any other
\* fault) leaves the override file exactly as it was when the run started:
\* not created if it was absent, not modified if it existed.
C1_FailedRunLeavesOverride ==
    ComposeFailed("p1") => override_file = override_before["p1"]

\* a run whose build engine failed, with an override file on disk
C1_Witness ==
    /\ ComposeFailed("p1")
    /\ pc["p1"] = "exited"
    /\ exc["p1"].type = "CalledProcessError"
    /\ override_before["p1"] # Absent
    /\ compose_override_config["p1"] # override_file

\* the three user/config error conditions of the compose command
SourceFileMissing == compose_file = Absent
SourceServiceAbsent(p) ==
    /\ compose_file # Absent
    /\ ~Has(Get(compose_file, "services"), args[p].source_service)
NoBuildContext(p) ==
    /\ compose_file # Absent
    /\ Has(Get(compose_file, "services"), args[p].source_service)
    /\ ~Truthy(Get(GetOr(Get(compose_file, "services").v[args[p].source_service],
                         "build", EmptyDict), "context"))

\* C2: each of the three user/config errors of the compose command (source
\* file missing, source service absent, no build.context) ends as a
\* CommandError caught in main: one line on the error stream, exit code 1.
C2_UserErrorsAreCommandErrors ==
    (/\ args["p1"].command = "compose"
     /\ pc["p1"] = "exited"
     /\ SourceFileMissing \/ SourceServiceAbsent("p1") \/ NoBuildContext("p1"))
    => (/\ exc["p1"].type = "CommandError"
        /\ exit_code["p1"] = 1
        /\ Len(stderr["p1"]) = 1)

\* C3 as stated: after every successful run the persisted service has none
\* of the keys command, build, depends_on.
C3_NoIgnoredKeys ==
    ComposeOk("p1") =>
        DOMAIN Persisted("p1").v \cap {"command", "build", "depends_on"} = {}

\* C3 amended: after every successful run the persisted service has neither
\* command nor depends_on, and it has a build key exactly when the run used
\* --no-build together with --dockerfile.
C3_NoIgnoredKeysButBuildBlock ==
    ComposeOk("p1") =>
        /\ DOMAIN Persisted("p1").v \cap {"command", "depends_on"} = {}
        /\ Has(Persisted("p1"), "build")
             <=> (args["p1"].no_build /\ Truthy(args["p1"].dockerfile))

\* a successful --no-build --dockerfile run over a source service and an
\* existing override service that both carry a command
C3_Witness ==
    /\ ComposeOk("p1")
    /\ args["p1"].no_build /\ Truthy(args["p1"].dockerfile)
    /\ ~args["p1"].replace_existing
    /\ Has(source_service["p1"], "command")
    /\ Has(Get(GetOr(override_before["p1"], "services", EmptyDict), "vim"), "command")
    /\ Has(Persisted("p1"), "build")
    /\ ~Has(Persisted("p1"), "command")

\* the second of two successive successful runs with the same source
\* service and target name, the second one without --replace-existing
SecondRun(p) ==
    /\ ComposeOk(p)
    /\ prev_run # NoneV
    /\ prev_run.v.name = args[p].name
    /\ prev_run.v.source_service = args[p].source_service
    /\ override_before[p] = prev_run.v.doc
    /\ ~args[p].replace_existing
FirstService(p) == Get(Get(prev_run.v.doc, "services"), args[p].name)

\* C5: in the second of two successive runs (same source service and target
\* name, second without --replace-existing) every key of the target service
\* written by the first run is still a key of the target service written by
\* the second, unless the second run's clone of the source carries that key.
C5_KeysNotDropped ==
    SecondRun("p1") =>
        \A k \in DOMAIN FirstService("p1").v :
            Has(Persisted("p1"), k) \/ Has(source_service["p1"], k)

\* a second run that kept a key only the override had ("ports") and dropped
\* the build block the first run (--no-build --dockerfile) had written
C5_Witness ==
    /\ SecondRun("p1")
    /\ Has(FirstService("p1"), "ports")
    /\ Has(Persisted("p1"), "ports")
    /\ ~Has(source_service["p1"], "ports")
    /\ Has(FirstService("p1"), "build")
    /\ ~Has(Persisted("p1"), "build")

\* the service of the target name in the override the run started from
ExistingService(p) ==
    IF override_before[p] # Absent /\ IsDict(override_before[p])
       /\ IsDict(GetOr(override_before[p], "services", NoneV))
    THEN Get(Get(override_before[p], "services"), args[p].name)
    ELSE NoneV
IsScalar(x) == x.t \in {"str", "bool"}
SetByDeriver ==
    {"image", "stdin_open", "tty", "entrypoint", "environment", "volumes"}

\* C6: when the target service exists in the override and the replace flag
\* is not set, every key with a scalar value both in the existing service
\* and in the clone of the source service, other than the keys the deriver
\* sets itself, keeps the existing override's value in the persisted service.
C6_ExistingScalarsWin ==
    (ComposeOk("p1") /\ ~args["p1"].replace_existing
        /\ Truthy(ExistingService("p1")))
    => \A k \in (DOMAIN ExistingService("p1").v
                   \cap DOMAIN source_service["p1"].v) \ SetByDeriver :
          (IsScalar(ExistingService("p1").v[k])
             /\ IsScalar(source_service["p1"].v[k]))
          => (/\ Has(Persisted("p1"), k)
              /\ Persisted("p1").v[k] = ExistingService("p1").v[k])

\* an image reference with only its tag removed: the tag is what follows
\* the first ":" of the last "/"-separated component
RECURSIVE StripTag(_)
StripTag(ref) ==
    IF \E i \in 1..Len(ref) : ref[i] = "/"
    THEN <<Head(ref)>> \o StripTag(Tail(ref))
    ELSE SplitFirst(ref, ":")
ExpectedImage(p) ==
    (IF Has(source_service[p], "image")
     THEN StripTag(Get(source_service[p], "image").v)
     ELSE <<"myproj", "-", args[p].source_service>>)
    \o <<":", "nvim-devcontainer">>

\* C7: the derived service's image is N:nvim-devcontainer, N being the
\* source's explicit image with only its tag removed (registry host and
\* port kept), or <context basename>-<source service> without an image key.
C7_ImageName ==
    ComposeOk("p1") => Get(Persisted("p1"), "image") = S(ExpectedImage("p1"))

\* the passthrough arguments the user gave after the separator
Passthrough(build_args) ==
    IF build_args # <<>> /\ Head(build_args) = <<"--">>
    THEN Tail(build_args) ELSE build_args

\* C9: the build-engine call of the build command is
\* docker build -t <base without tag>:nvim-devcontainer -f <dockerfile>
\* <context> followed by all the passthrough arguments, in order.
C9_BuildCommandLine ==
    (args["p1"].command = "build" /\ docker_cmd["p1"] # <<>>)
    => LET cmd == docker_cmd["p1"]
       IN /\ Len(cmd) >= 7
          /\ SubSeq(cmd, 1, 3) = << <<"docker">>, <<"build">>, <<"-t">> >>
          /\ cmd[4] = StripTag(args["p1"].base_image)
                        \o <<":", "nvim-devcontainer">>
          /\ cmd[5] = <<"-f">>
          /\ cmd[6] = dockerfile_written["p1"].name
          /\ cmd[7] = (IF IsNone(args["p1"].directory)
                       THEN TmpDir ELSE args["p1"].directory.v)
          /\ SubSeq(cmd, 8, Len(cmd)) = Passthrough(args["p1"].build_args)

Count(list, x) == Cardinality({i \in 1..Len(list) : list[i] = x})

\* C10: a successive successful run with the same source, the same target
\* name and no --replace-existing leaves the override equal to the one the
\* previous run wrote; the target's volumes hold each fixed mount exactly
\* once and its environment each passthrough variable exactly once.
C10_Idempotent ==
    SecondRun("p1") =>
        /\ override_file = prev_run.v.doc
        /\ \A i \in 1..Len(FixedMounts) :
              Count(Get(Persisted("p1"), "volumes").v, FixedMounts[i]) = 1
        /\ \A i \in 1..Len(PassthroughEnv) :
              Count(Get(Persisted("p1"), "environment").v, PassthroughEnv[i]) = 1

BothOk == ComposeOk("p1") /\ ComposeOk("p2")
HasService(name) ==
    /\ override_file # Absent
    /\ Has(Get(override_file, "services"), name)

\* C8: when one invocation reads the override file only after the other has
\* written it (one after the other) and both succeed, the final override
\* file holds both derived services; when both read it before either wrote
\* and both succeed, the final file cannot hold both: one update is lost.
C8_LostUpdateOnlyWhenOverlapping ==
    BothOk =>
        /\ ("p1" \in seen["p2"] \/ "p2" \in seen["p1"])
             => (HasService("vim") /\ HasService("vim2"))
        /\ (seen["p1"] = {} /\ seen["p2"] = {})
             => ~(HasService("vim") /\ HasService("vim2"))

\* both invocations finished successfully and the override file holds only
\* the service of the one that wrote last
C8_Witness ==
    /\ BothOk
    /\ seen["p1"] = {} /\ seen["p2"] = {}
    /\ HasService("vim2")
    /\ ~HasService("vim")

====
